---- MODULE Spec2Model ----
(***************************************************************************)
(* A model of pypoe's socket colouring calculator                          *)
(* (src/src/pypoe/socket_calcs.py, src/src/pypoe/utils.py).                *)
(*                                                                         *)
(* Floats are modelled as exact rationals [n |-> num, d |-> den] in lowest *)
(* terms, plus the value NaN.  Dictionary keys that are the strings "50",  *)
(* "66", ... in the source are the integers 50, 66, ... here.              *)
(***************************************************************************)
EXTENDS Integers, Sequences, FiniteSets, TLC

VARIABLES
    pc,        \* "start" | "item" | "calc" | "done" | "raised"
    item,      \* the Item dataclass instance
    desired,   \* ChromaticCalculator._desired_colors
    chances,   \* ChromaticCalculator._base_chances (str, dex, int order)
    options,   \* ChromaticCalculator._chromatic_options_modifiers
    results,   \* compute_chances: the local list `results` (before filtering)
    sort_by,   \* compute_chances: the argument sort_by_percentile
    returned,  \* compute_chances: the returned list
    raised     \* the exception raised by a call, or "none"

vars == <<pc, item, desired, chances, options, results, sort_by, returned, raised>>

(***************************************************************************)
(* Input domains.                                                          *)
(***************************************************************************)
\* Item.max_sockets default; socket counts of real items are 1..6.
MaxSockets == 6
\* Largest component of a target colour triple that is tried.
MaxTarget == 3

\* Valid input: 1..6 sockets, requirements and target counts >= 0.  The
\* requirement values make every case of ColorChances happen: none, one,
\* two equal, two different and three requirements.
SocketCounts == 1..MaxSockets
ReqValues    == {0, 25, 50}
TargetValues == 0..MaxTarget

\* Input that nothing has validated: a negative socket count, requirement or
\* target count among it.
AnySocketCounts == (0 - 1)..1
AnyReqValues    == {0 - 25, 0, 25}
AnyTargetValues == (0 - 1)..1

Triples(S)   == {<<a, b, c>> : a \in S, b \in S, c \in S}

(***************************************************************************)
(* Exact rational arithmetic standing for Python/numpy float arithmetic.   *)
(***************************************************************************)
\* NaN is the record 0/0, which no arithmetic below produces.
NaN == [n |-> 0, d |-> 0]

RECURSIVE GCD(_, _)
GCD(a, b) == IF b = 0 THEN a ELSE GCD(b, a % b)

Abs(a) == IF a < 0 THEN 0 - a ELSE a

Rat(n, d) ==
    LET s == IF d < 0 THEN 0 - 1 ELSE 1
        g == GCD(Abs(n), Abs(d))
    IN  [n |-> (s * n) \div g, d |-> (s * d) \div g]

RInt(k)    == [n |-> k, d |-> 1]
RAdd(a, b) == Rat(a.n * b.d + b.n * a.d, a.d * b.d)
RSub(a, b) == Rat(a.n * b.d - b.n * a.d, a.d * b.d)
RMul(a, b) == Rat(a.n * b.n, a.d * b.d)
RDiv(a, b) == Rat(a.n * b.d, a.d * b.n)
RLess(a, b) == a.n * b.d < b.n * a.d

\* Float arithmetic on values that may be NaN: NaN propagates through a
\* product, and every comparison with NaN is False.
FloatMul(a, b)  == IF a = NaN \/ b = NaN THEN NaN ELSE RMul(a, b)
FloatLess(a, b) == a # NaN /\ b # NaN /\ RLess(a, b)

RECURSIVE RPow(_, _)
RPow(a, k) == IF k = 0 THEN RInt(1) ELSE RMul(a, RPow(a, k - 1))

RECURSIVE Factorial(_)
Factorial(k) == IF k <= 0 THEN 1 ELSE k * Factorial(k - 1)

Sum3(t) == t[1] + t[2] + t[3]

(***************************************************************************)
(* Item (socket_calcs.py 33-54).                                           *)
(***************************************************************************)
\* Item.__iter__: yields str_req, dex_req, int_req.
ItemIter(it) == <<it.str_req, it.dex_req, it.int_req>>

\* The dataclass constructor followed by __post_init__: no field is
\* validated, n_req counts the requirements that are > 0.
Item(n_sockets, str_req, dex_req, int_req) ==
    LET reqs == <<str_req, dex_req, int_req>>
    IN  [n_sockets |-> n_sockets, max_sockets |-> MaxSockets,
         str_req |-> str_req, dex_req |-> dex_req, int_req |-> int_req,
         n_req |-> Cardinality({i \in 1..3 : reqs[i] > 0})]

(***************************************************************************)
(* ColorChances (socket_calcs.py 83-122).                                  *)
(***************************************************************************)
AttrNames == <<"str", "dex", "int">>

\* sorted(zip(_attr_names, item), key=get(1)): a stable ascending sort of the
\* (name, requirement) pairs by requirement.
RECURSIVE InsertByKey(_, _)
InsertByKey(sorted, e) ==
    IF sorted = <<>> THEN <<e>>
    ELSE IF e[2] < sorted[Len(sorted)][2]
         THEN Append(InsertByKey(SubSeq(sorted, 1, Len(sorted) - 1), e),
                     sorted[Len(sorted)])
         ELSE Append(sorted, e)

RECURSIVE SortByKey(_)
SortByKey(s) ==
    IF s = <<>> THEN <<>>
    ELSE InsertByKey(SortByKey(SubSeq(s, 1, Len(s) - 1)), s[Len(s)])

SortedAttrs(it) == SortByKey([i \in 1..3 |-> <<AttrNames[i], ItemIter(it)[i]>>])

\* _on_color_chance_1req: 0.9 * (R + 10) / (R + 20)
OnColorChance1Req(R) == RDiv(RMul(Rat(9, 10), RInt(R + 10)), RInt(R + 20))

\* _on_color_chance_2req: 0.9 * R1 / (R1 + R2)
OnColorChance2Req(R1, R2) == RDiv(RMul(Rat(9, 10), RInt(R1)), RInt(R1 + R2))

\* The probabilities zipped onto sorted_attrs (lowest requirement first), by
\* n_req; <<>> when the constructor leaves the uniform default in place.
ChancesBySortedPosition(it) ==
    LET sorted_attrs == SortedAttrs(it)
        hi_attr == sorted_attrs[3][2]
        lo_attr == sorted_attrs[2][2]
    IN  IF it.n_req = 1
        THEN LET on_chance  == OnColorChance1Req(hi_attr)
                 off_chance == RDiv(RSub(RInt(1), on_chance), RInt(2))
             IN  <<off_chance, off_chance, on_chance>>
        ELSE IF it.n_req = 2
        THEN LET on_chance == OnColorChance2Req(hi_attr, lo_attr)
             IN  <<Rat(1, 10), RSub(Rat(9, 10), on_chance), on_chance>>
        ELSE <<>>

\* Mutant of ColorChances: the probabilities are stored positionally, in
\* str, dex, int order, instead of under the attribute they were computed for.
ColorChancesPositional(it) ==
    LET ps == ChancesBySortedPosition(it)
    IN  IF ps = <<>> THEN [a \in {"str", "dex", "int"} |-> Rat(1, 3)]
        ELSE [a \in {"str", "dex", "int"} |->
                ps[CHOOSE j \in 1..3 : AttrNames[j] = a]]

\* ColorChances.__init__: the _chances dictionary, keyed by attribute name.
ColorChances(it) ==
    LET sorted_attrs == SortedAttrs(it)
        ps == ChancesBySortedPosition(it)
        default == [a \in {"str", "dex", "int"} |-> Rat(1, 3)]
    IN  IF ps = <<>> THEN default
        ELSE [a \in {"str", "dex", "int"} |->
                LET k == CHOOSE j \in 1..3 : sorted_attrs[j][1] = a IN ps[k]]

\* ColorChances.__iter__: the dictionary's values in insertion order, which
\* is the order of _attr_names.
ColorChancesIter(c) == [i \in 1..3 |-> c[AttrNames[i]]]

(***************************************************************************)
(* utils.py: delfn and RGB; the crafting-option catalog                    *)
(* (socket_calcs.py 139-158).                                              *)
(***************************************************************************)
Symbols == <<"r", "g", "b", "0">>

\* itertools.combinations_with_replacement("rgb0", r=3): the non-decreasing
\* index triples in lexicographic order.
CombinationsWithReplacement ==
    LET all == [m \in 1..64 |-> <<((m - 1) \div 16) + 1,
                                  (((m - 1) \div 4) % 4) + 1,
                                  ((m - 1) % 4) + 1>>]
        nondecreasing(t) == t[1] <= t[2] /\ t[2] <= t[3]
        picked == SelectSeq(all, nondecreasing)
    IN  [m \in 1..Len(picked) |-> [i \in 1..3 |-> Symbols[picked[m][i]]]]

\* collections.Counter of a combination: symbol -> number of occurrences,
\* only for the symbols that occur.
Counter(combo) ==
    [s \in {combo[i] : i \in 1..3} |-> Cardinality({i \in 1..3 : combo[i] = s})]

\* Counter.__getitem__: 0 for a missing key.
CounterGet(x, key) == IF key \in DOMAIN x THEN x[key] ELSE 0

\* delfn(x, key): del x[key]; Counter.__delitem__ ignores a missing key.
delfn(x, key) == [s \in (DOMAIN x) \ {key} |-> x[s]]

\* Mutant of NotOneOfEach: the 1R1G1B combination is not filtered out.
KeepEveryCombination(x) == TRUE

\* filter(lambda x: not all(x[i] == 1 for i in "rgb"))
NotOneOfEach(x) == ~(\A c \in {"r", "g", "b"} : CounterGet(x, c) = 1)

\* RGB.__init__ followed by RGB.__iter__: (r, g, b) with kwargs.get(c, 0).
RGB(kwargs) == <<CounterGet(kwargs, "r"), CounterGet(kwargs, "g"), CounterGet(kwargs, "b")>>

ChromaticOptionsModifiers ==
    LET counters == [m \in 1..Len(CombinationsWithReplacement) |->
                        delfn(Counter(CombinationsWithReplacement[m]), "0")]
        kept == SelectSeq(counters, NotOneOfEach)
    IN  [m \in 1..Len(kept) |-> RGB(kept[m])]

\* RGB.__str__: "chromatic", or "bench " followed by "<count><letter>" for
\* each non-zero count in R, G, B order; the text is kept as its parts.
RGBStr(o) ==
    LET letters == <<"R", "G", "B">>
        all     == [i \in 1..3 |-> [count |-> o[i], letter |-> letters[i]]]
        shown(part) == part.count > 0
        parts   == SelectSeq(all, shown)
    IN  IF parts = <<>> THEN [kind |-> "chromatic", parts |-> <<>>]
        ELSE [kind |-> "bench", parts |-> parts]

(***************************************************************************)
(* scipy.stats.multinomial.pmf(x, n, p), as the library computes it:       *)
(* NaN for a bad n or p, 0 for x outside the support, else the multinomial *)
(* probability.                                                            *)
(***************************************************************************)
MultinomialPmf(x, n, p) ==
    LET \* _process_parameters: the last probability is 1 - the others' sum
        last   == RSub(RInt(1), RAdd(p[1], p[2]))
        pp     == <<p[1], p[2], last>>
        pcond  == \E i \in 1..3 : pp[i].n < 0 \/ pp[i].n > pp[i].d
        ncond  == n < 0
        \* _process_quantiles
        xcond  == (\E i \in 1..3 : x[i] < 0) \/ Sum3(x) # n
        coef   == Factorial(n) \div (Factorial(x[1]) * Factorial(x[2]) * Factorial(x[3]))
        powers == RMul(RMul(RPow(pp[1], x[1]), RPow(pp[2], x[2])), RPow(pp[3], x[3]))
    IN  IF ncond \/ pcond THEN NaN
        ELSE IF xcond THEN RInt(0)
        ELSE RMul(RInt(coef), powers)

(***************************************************************************)
(* Fixed-point numbers in [0, 1]: a sequence v of base-Base digits, one    *)
(* before the point and Len(v) - 1 after it.  An approximation [v, e]      *)
(* stands for a real number in [v, v + e ulps]; e = 0 means v is exact.    *)
(* They are used only to decide the comparisons (1-p)^k <= 1 - q, and a    *)
(* comparison the enclosure does not decide yields Undecided.              *)
(***************************************************************************)
Base  == 10 ^ 4
\* The width used with a power table of nb entries: the longer the table, the
\* smaller 1 - q, and the more digits its powers need to be told apart.
EnclosureWidth(nb) == 3 + (nb \div 6)
Undecided == 0 - 1

FOne(w) == [v |-> [i \in 1..w |-> IF i = 1 THEN 1 ELSE 0], e |-> 0]

\* (q1 * b + r1) + (q2 * b + r2) as (q * b + r), 0 <= r < b, without
\* forming a number above b.
AddQR(a, c, b) ==
    IF a.r >= b - c.r THEN [q |-> a.q + c.q + 1, r |-> a.r - (b - c.r)]
    ELSE [q |-> a.q + c.q, r |-> a.r + c.r]

Times10(r, b) ==
    LET x1 == [q |-> 0, r |-> r]
        x2 == AddQR(x1, x1, b)
        x4 == AddQR(x2, x2, b)
        x8 == AddQR(x4, x4, b)
    IN  AddQR(x8, x2, b)

\* The next `count` decimal digits of r / b as one number, with the remainder.
RECURSIVE DecimalDigits(_, _, _, _)
DecimalDigits(r, b, count, acc) ==
    IF count = 0 THEN [q |-> acc, r |-> r]
    ELSE LET t == Times10(r, b) IN DecimalDigits(t.r, b, count - 1, acc * 10 + t.q)

RECURSIVE FracLimbs(_, _, _, _)
FracLimbs(r, b, count, acc) ==
    IF count = 0 THEN [v |-> acc, r |-> r]
    ELSE LET t == DecimalDigits(r, b, 4, 0) IN FracLimbs(t.r, b, count - 1, Append(acc, t.q))

\* The fixed-point enclosure, w digits wide, of the rational a / b, 0 <= a <= b.
FromRat(a, b, w) ==
    IF a = b THEN FOne(w)
    ELSE LET f == FracLimbs(a, b, w - 1, <<0>>)
         IN  [v |-> f.v, e |-> IF f.r = 0 THEN 0 ELSE 1]

RECURSIVE RawSum(_, _, _, _, _)
RawSum(x, y, r, i, hi) ==
    IF i > hi THEN 0 ELSE x[i] * y[r + 1 - i] + RawSum(x, y, r, i + 1, hi)

RawLimb(x, y, r) ==
    RawSum(x, y, r, IF r + 1 - Len(x) > 1 THEN r + 1 - Len(x) ELSE 1,
           IF r < Len(x) THEN r ELSE Len(x))

\* The product of two digit sequences of the same width, truncated to it.
RECURSIVE MulNorm(_, _, _, _, _, _)
MulNorm(x, y, r, carry, digits, inexact) ==
    IF r = 0 THEN [v |-> digits, inexact |-> inexact]
    ELSE LET t == RawLimb(x, y, r) + carry
             d == t % Base
         IN  IF r > Len(x)
             THEN MulNorm(x, y, r - 1, t \div Base, digits, inexact \/ d # 0)
             ELSE MulNorm(x, y, r - 1, t \div Base, <<d>> \o digits, inexact)

FMul(X, Y) ==
    LET m == MulNorm(X.v, Y.v, 2 * Len(X.v) - 1, 0, <<>>, FALSE)
    IN  [v |-> m.v,
         e |-> X.e + Y.e + (IF m.inexact THEN 1 ELSE 0)
                 + (IF X.e > 0 /\ Y.e > 0 THEN 1 ELSE 0)]

RECURSIVE LexLeq(_, _, _)
LexLeq(x, y, i) ==
    IF i > Len(x) THEN TRUE
    ELSE IF x[i] < y[i] THEN TRUE
    ELSE IF x[i] > y[i] THEN FALSE
    ELSE LexLeq(x, y, i + 1)

RECURSIVE AddUlps(_, _, _)
AddUlps(v, i, carry) ==
    IF carry = 0 \/ i = 0 THEN v
    ELSE LET t == v[i] + carry
         IN  AddUlps([v EXCEPT ![i] = t % Base], i - 1, t \div Base)

\* "le" when X <= t for sure, "gt" when X > t for sure, else "unknown".
FCompare(X, t) ==
    IF ~LexLeq(X.v, t, 1) THEN "gt"
    ELSE IF X.e = 0 \/ LexLeq(AddUlps(X.v, Len(X.v), X.e), t, 1) THEN "le"
    ELSE "unknown"

\* pw[i] = q^(2^(i-1))
RECURSIVE PowerTable(_, _)
PowerTable(q, nb) ==
    IF nb = 1 THEN <<q>>
    ELSE LET t == PowerTable(q, nb - 1) IN Append(t, FMul(t[nb - 1], t[nb - 1]))

\* The largest m < 2^i (added to the m found so far) with q^m > t.
RECURSIVE LargestAbove(_, _, _, _, _)
LargestAbove(pw, t, i, acc, m) ==
    IF i = 0 THEN m
    ELSE LET cand == FMul(acc, pw[i])
             c == FCompare(cand, t)
         IN  IF c = "unknown" THEN Undecided
             ELSE IF c = "gt" THEN LargestAbove(pw, t, i - 1, cand, m + 2 ^ (i - 1))
             ELSE LargestAbove(pw, t, i - 1, acc, m)

RECURSIVE BitsFor(_, _)
BitsFor(k, nb) == IF 2 ^ nb > k THEN nb ELSE BitsFor(k, nb + 1)

(***************************************************************************)
(* scipy.stats.geom.ppf(q, p) for q = level / 100: NaN unless 0 < p <= 1;  *)
(* otherwise ceil(log1p(-q) / log1p(-p)), the smallest k with              *)
(* (1-p)^k <= 1-q, which for p = 1 is ceil(log1p(-q) / -inf) = 0.          *)
(***************************************************************************)
Levels == <<50, 66, 80, 90, 95, 99>>

\* The table q^(2^i) for q = 1 - p, long enough for any level's count:
\* k <= ln(100) / p + 1 < 5 * (den / num + 1) + 1.
GeomTable(p) ==
    LET nb == BitsFor(5 * ((p.d \div p.n) + 1) + 1, 1)
        w  == EnclosureWidth(nb)
    IN  PowerTable(FromRat(p.d - p.n, p.d, w), nb)

\* The smallest k with (1-p)^k <= 1 - level/100, from the table for p.
GeomPpfWith(pw, level) ==
    LET w == Len(pw[1].v)
        t == [i \in 1..w |-> IF i = 2 THEN (100 - level) * (Base \div 100) ELSE 0]
        m == LargestAbove(pw, t, Len(pw), FOne(w), 0)
    IN  IF m = Undecided \/ m = 2 ^ Len(pw) - 1 THEN RInt(Undecided) ELSE RInt(m + 1)

\* geom.ppf([0.5, 0.66, 0.80, 0.9, 0.95, 0.99], p)
GeomPpf(p) ==
    IF p = NaN THEN [i \in 1..Len(Levels) |-> NaN]
    ELSE IF p.n <= 0 \/ p.n > p.d THEN [i \in 1..Len(Levels) |-> NaN]
    ELSE IF p.n = p.d THEN [i \in 1..Len(Levels) |-> RInt(0)]
    ELSE LET pw == GeomTable(p) IN [i \in 1..Len(Levels) |-> GeomPpfWith(pw, Levels[i])]


(***************************************************************************)
(* ChromaticResult and ChromaticCalculator.compute_chances                 *)
(* (socket_calcs.py 23-30, 68-76, 160-201).                                *)
(***************************************************************************)
CHROMATIC_COSTS ==
    (<<0, 0, 0>> :> 1) @@ (<<0, 0, 1>> :> 4) @@ (<<0, 1, 1>> :> 15) @@
    (<<0, 0, 2>> :> 25) @@ (<<0, 1, 2>> :> 100) @@ (<<0, 0, 3>> :> 120)

\* tuple(sorted(bench_opt))
RECURSIVE InsertInt(_, _)
InsertInt(sorted, e) ==
    IF sorted = <<>> THEN <<e>>
    ELSE IF e < sorted[Len(sorted)]
         THEN Append(InsertInt(SubSeq(sorted, 1, Len(sorted) - 1), e), sorted[Len(sorted)])
         ELSE Append(sorted, e)

SortedTuple(o) == InsertInt(InsertInt(InsertInt(<<>>, o[1]), o[2]), o[3])

\* Mutant of CostKey: the counts are not sorted before the lookup.
CostKeyUnsorted(bench_opt) == bench_opt

\* The key looked up in CHROMATIC_COSTS for a bench option.
CostKey(bench_opt) == SortedTuple(bench_opt)

\* The keys the percentiles are zipped onto (line 189).
PercentileKeys == <<50, 66, 80, 90, 99>>

\* dict(zip(keys, values)): zip stops at the shorter sequence.
ZipDict(keys, values) ==
    LET len == IF Len(keys) < Len(values) THEN Len(keys) ELSE Len(values)
    IN  [k \in {keys[i] : i \in 1..len} |->
            values[CHOOSE i \in 1..len : keys[i] = k /\ \A j \in (i + 1)..len : keys[j] # k]]

\* Mutant of TrialsFor: the fixed sockets are not taken off the trials.
TrialsIgnoringFixed(n_sockets, bench_opt) == n_sockets

\* The number of trials handed to the multinomial for a bench option.
TrialsFor(n_sockets, bench_opt) == n_sockets - Sum3(bench_opt)

\* One pass of the loop body (lines 167-191) for a bench option whose cost
\* key is in the table.
ResultFor(bench_opt, n_sockets, want, base) ==
    LET chance == MultinomialPmf([i \in 1..3 |-> want[i] - bench_opt[i]],
                                 TrialsFor(n_sockets, bench_opt), base)
    IN  [name |-> RGBStr(bench_opt),
         success_probability_single_trial |-> chance,
         cost_per_try |-> CHROMATIC_COSTS[CostKey(bench_opt)],
         percentiles |-> ZipDict(PercentileKeys, GeomPpf(chance))]

\* ChromaticResult.cost(at_percentile), defined when the key is present.
Cost(res, at_percentile) == FloatMul(res.percentiles[at_percentile], RInt(res.cost_per_try))

\* filter(lambda x: x.success_probability_single_trial > 0); NaN > 0 is False.
Interesting(res) == FloatLess(RInt(0), res.success_probability_single_trial)

\* sorted(key=lambda x: x.cost(sort_by_percentile)): a stable ascending sort.
RECURSIVE InsertByCost(_, _, _)
InsertByCost(sorted, e, at) ==
    IF sorted = <<>> THEN <<e>>
    ELSE IF FloatLess(Cost(e, at), Cost(sorted[Len(sorted)], at))
         THEN Append(InsertByCost(SubSeq(sorted, 1, Len(sorted) - 1), e, at),
                     sorted[Len(sorted)])
         ELSE Append(sorted, e)

RECURSIVE SortByCost(_, _)
SortByCost(s, at) ==
    IF s = <<>> THEN <<>>
    ELSE InsertByCost(SortByCost(SubSeq(s, 1, Len(s) - 1), at), s[Len(s)], at)

(***************************************************************************)
(* The state machine: an Item is constructed, then a ChromaticCalculator   *)
(* for it, then compute_chances is called.                                 *)
(***************************************************************************)
Init ==
    /\ pc = "start"
    /\ item = <<>>
    /\ desired = <<>>
    /\ chances = <<>>
    /\ options = <<>>
    /\ results = <<>>
    /\ sort_by = 0
    /\ returned = <<>>
    /\ raised = "none"

\* Item(n_sockets=..., str_req=..., dex_req=..., int_req=...)
NewItemFrom(sockets, reqvalues) ==
    /\ pc = "start"
    /\ \E n \in sockets, reqs \in Triples(reqvalues) :
          item' = Item(n, reqs[1], reqs[2], reqs[3])
    /\ pc' = "item"
    /\ UNCHANGED <<desired, chances, options, results, sort_by, returned, raised>>

\* ChromaticCalculator(item, desired_socket_colors)
NewCalculatorFor(targetvalues) ==
    /\ pc = "item"
    /\ \E t \in Triples(targetvalues) : desired' = t
    /\ chances' = ColorChancesIter(ColorChances(item))
    /\ options' = ChromaticOptionsModifiers
    /\ pc' = "calc"
    /\ UNCHANGED <<item, results, sort_by, returned, raised>>

NewItem == NewItemFrom(SocketCounts, ReqValues)
NewCalculator == NewCalculatorFor(TargetValues)
NewItemUnchecked == NewItemFrom(AnySocketCounts, AnyReqValues)
NewCalculatorUnchecked == NewCalculatorFor(AnyTargetValues)

\* The loop of compute_chances (lines 165-191): the results built until the
\* first option whose cost lookup fails, or for every option.
BuiltResults(opts, n_sockets, want, base) ==
    LET priced == {i \in 1..Len(opts) : CostKey(opts[i]) \in DOMAIN CHROMATIC_COSTS}
        upto == IF priced = 1..Len(opts) THEN Len(opts)
                ELSE (CHOOSE i \in 1..Len(opts) :
                         i \notin priced /\ \A j \in 1..(i - 1) : j \in priced) - 1
    IN  [i \in 1..upto |-> ResultFor(opts[i], n_sockets, want, base)]

\* calc.compute_chances(sort_by_percentile)
compute_chances ==
    /\ pc = "calc"
    /\ \E built \in {BuiltResults(options, item.n_sockets, desired, chances)} :
       \E kept \in {SelectSeq(built, Interesting)} :
       \E level \in {Levels[i] : i \in 1..Len(Levels)} :
          /\ sort_by' = level
          /\ results' = built
          /\ IF Len(built) < Len(options)
             THEN \* CHROMATIC_COSTS[...] raised inside the loop
                  /\ raised' = "KeyError"
                  /\ returned' = <<>>
                  /\ pc' = "raised"
             ELSE IF \E i \in 1..Len(kept) : level \notin DOMAIN kept[i].percentiles
             THEN \* x.cost(sort_by_percentile) raised inside sorted
                  /\ raised' = "KeyError"
                  /\ returned' = <<>>
                  /\ pc' = "raised"
             ELSE /\ raised' = "none"
                  /\ returned' = SortByCost(kept, level)
                  /\ pc' = "done"
    /\ UNCHANGED <<item, desired, chances, options>>

Next == NewItem \/ NewCalculator \/ compute_chances

Spec == Init /\ [][Next]_vars

\* The same program fed input that nothing has validated.
NextUnchecked == NewItemUnchecked \/ NewCalculatorUnchecked \/ compute_chances

SpecUnchecked == Init /\ [][NextUnchecked]_vars


(***************************************************************************)
(* Properties.                                                             *)
(***************************************************************************)
\* sort_by_percentile's default, "66".
DefaultLevel == 66

LevelSet    == {Levels[i] : i \in 1..Len(Levels)}
Constructed == pc \in {"calc", "done", "raised"}
Called      == pc \in {"done", "raised"}
Reqs        == ItemIter(item)
Chance(res) == res.success_probability_single_trial

\* The attempt count of confidence level L for success probability p.
AttemptsAt(p, L) == GeomPpf(p)[CHOOSE i \in 1..Len(Levels) : Levels[i] = L]

\* Cost-at-percentile(L): the attempt count of level L itself times the cost.
CostAtLevel(res, L) == FloatMul(AttemptsAt(Chance(res), L), RInt(res.cost_per_try))

\* C1: every returned result whose success probability p is in (0,1) has a
\* percentiles entry for each of the levels 50, 66, 80, 90, 95 and 99, and the
\* entry for level L is the smallest k >= 1 with 1-(1-p)^k >= L/100.
C1_PercentileForEveryLevel ==
    pc = "done" =>
        \A i \in 1..Len(returned) :
            Chance(returned[i]).n < Chance(returned[i]).d =>
                \A L \in LevelSet :
                    /\ L \in DOMAIN returned[i].percentiles
                    /\ returned[i].percentiles[L] = AttemptsAt(Chance(returned[i]), L)

\* C2: for every level L in {50,66,80,90,95,99} compute_chances returns
\* without raising, and the returned sequence is ascending in
\* cost-at-percentile(L), computed with the attempt count of level L itself.
C2_SortedByCostAtLevel ==
    Called =>
        /\ raised = "none"
        /\ \A i \in 1..(Len(returned) - 1) :
              ~FloatLess(CostAtLevel(returned[i + 1], sort_by),
                         CostAtLevel(returned[i], sort_by))

\* An option that cannot succeed: it fixes more sockets than the item has, or
\* more of a colour than the target asks for.
Infeasible(o) == Sum3(o) > item.n_sockets \/ \E c \in 1..3 : desired[c] - o[c] < 0

\* C3: an option whose fixed-colour sum exceeds the socket count, or whose
\* remaining target has a negative component, has success probability exactly
\* 0 (not NaN), compute_chances raises nothing, and the option is absent from
\* the returned list.
C3_InfeasibleOptionIsZero ==
    (Called /\ sort_by = DefaultLevel) =>
        \A i \in 1..Len(options) :
            Infeasible(options[i]) =>
                /\ raised = "none"
                /\ i <= Len(results)
                /\ Chance(results[i]) = RInt(0)
                /\ \A j \in 1..Len(returned) : returned[j].name # RGBStr(options[i])

\* C4: every percentile attempt count of every returned result is a positive
\* integer (never 0, infinite or NaN), also when the success probability is 1.
C4_AttemptsPositive ==
    pc = "done" =>
        \A i \in 1..Len(returned) :
            \A L \in DOMAIN returned[i].percentiles :
                /\ returned[i].percentiles[L] # NaN
                /\ returned[i].percentiles[L].d = 1
                /\ returned[i].percentiles[L].n >= 1

\* The probability the colour of attribute i should have, from the
\* requirements alone.
ExpectedChance(reqs, i) ==
    LET nz == {j \in 1..3 : reqs[j] # 0}
    IN  IF Cardinality(nz) = 1
        THEN LET R == reqs[CHOOSE j \in nz : TRUE]
             IN  IF i \in nz THEN Rat(9 * (R + 10), 10 * (R + 20))
                 ELSE Rat(10 * (R + 20) - 9 * (R + 10), 2 * 10 * (R + 20))
        ELSE IF Cardinality(nz) = 2
        THEN IF i \in nz THEN Rat(9 * reqs[i], 10 * Sum3(reqs)) ELSE Rat(1, 10)
        ELSE Rat(1, 3)

\* C5: for non-negative requirements the colour chances, in str, dex, int
\* order, are: 1/3 each with 0 or 3 requirements; 0.9(R+10)/(R+20) for the one
\* required attribute and half the rest for each other; with two requirements
\* 0.9 R/(R1+R2) for each required attribute with requirement R and 0.1 for
\* the third; each chance is under the attribute it belongs to, lies in [0,1],
\* and the three sum to 1.
C5_ColorChancesByAttribute ==
    (Constructed /\ \A i \in 1..3 : Reqs[i] >= 0) =>
        /\ \A i \in 1..3 :
              /\ chances[i] = ExpectedChance(Reqs, i)
              /\ chances[i].n >= 0
              /\ chances[i].n <= chances[i].d
        /\ RAdd(RAdd(chances[1], chances[2]), chances[3]) = RInt(1)

W5_TwoRequirementsOutOfOrder ==
    /\ pc = "calc"
    /\ Reqs = <<50, 0, 25>>
    /\ chances = <<Rat(6, 10), Rat(1, 10), Rat(3, 10)>>

\* The catalog in the order combinations_with_replacement("rgb0", 3) gives it.
CatalogOrder ==
    << <<3, 0, 0>>, <<2, 1, 0>>, <<2, 0, 1>>, <<2, 0, 0>>, <<1, 2, 0>>,
       <<1, 1, 0>>, <<1, 0, 2>>, <<1, 0, 1>>, <<1, 0, 0>>, <<0, 3, 0>>,
       <<0, 2, 1>>, <<0, 2, 0>>, <<0, 1, 2>>, <<0, 1, 1>>, <<0, 1, 0>>,
       <<0, 0, 3>>, <<0, 0, 2>>, <<0, 0, 1>>, <<0, 0, 0>> >>

\* C6: whatever the item and the target, the catalog is the count triples
\* (r,g,b) >= 0 with r+g+b <= 3 except (1,1,1): 19 options, no triple twice,
\* (0,0,0) among them, in the same order in every construction.
C6_Catalog ==
    Constructed =>
        /\ Len(options) = 19
        /\ {options[i] : i \in 1..Len(options)}
              = {t \in Triples(0..3) : Sum3(t) <= 3} \ {<<1, 1, 1>>}
        /\ \A i, j \in 1..Len(options) : options[i] = options[j] => i = j
        /\ \E i \in 1..Len(options) : options[i] = <<0, 0, 0>>
        /\ options = CatalogOrder

W6_CatalogBuilt ==
    /\ pc = "calc"
    /\ item.n_req = 2
    /\ desired = <<1, 2, 3>>
    /\ Len(options) = 19

\* The cost of an option by how many sockets it fixes and how many of one
\* colour at most.
ExpectedCost(o) ==
    LET most == CHOOSE m \in {o[1], o[2], o[3]} : \A c \in 1..3 : o[c] <= m
    IN  CASE Sum3(o) = 0 -> 1
          [] Sum3(o) = 1 -> 4
          [] Sum3(o) = 2 /\ most = 1 -> 15
          [] Sum3(o) = 2 /\ most = 2 -> 25
          [] Sum3(o) = 3 /\ most = 2 -> 100
          [] Sum3(o) = 3 /\ most = 3 -> 120

\* How many of an option's three counts are 0, 1, 2 and 3: two options are
\* permutations of each other exactly when these agree.
CountsOf(o) == [v \in 0..3 |-> Cardinality({c \in 1..3 : o[c] = v})]

\* C7: the cost lookup succeeds for every option of the catalog and gives the
\* table's value; options whose counts are permutations of each other cost the
\* same; every cost is a positive integer.
C7_CostLookup ==
    Called =>
        /\ Len(results) = Len(options)
        /\ \A i \in 1..Len(results) :
              /\ results[i].cost_per_try = ExpectedCost(options[i])
              /\ results[i].cost_per_try >= 1
        /\ \E counts \in {[i \in 1..Len(options) |-> CountsOf(options[i])]} :
              \A i, j \in 1..Len(results) :
                  counts[i] = counts[j] => results[i].cost_per_try = results[j].cost_per_try

W7_PermutedOptionsSameCost ==
    /\ Called
    /\ \E i, j \in 1..Len(results) :
          /\ options[i] = <<2, 0, 0>>
          /\ options[j] = <<0, 0, 2>>
          /\ results[i].cost_per_try = 25
          /\ results[j].cost_per_try = 25

\* C8: when the remaining target (r,g,b) = target - fixed is >= 0 and sums to
\* the remaining sockets n = n_sockets - sum(fixed), the success probability is
\* n!/(r! g! b!) * pR^r * pG^g * pB^b with the item's str, dex, int colour
\* chances; the chromatic option of a 6-socket item without requirements and
\* target (2,2,2) has probability 90/729.
C8_MultinomialProbability ==
    Called =>
        /\ \E chance \in {[c \in 1..3 |-> ExpectedChance(Reqs, c)]} :
           \A i \in 1..Len(results) :
              LET rem == [c \in 1..3 |-> desired[c] - options[i][c]]
                  n   == item.n_sockets - Sum3(options[i])
              IN  ((\A c \in 1..3 : rem[c] >= 0) /\ Sum3(rem) = n) =>
                      Chance(results[i]) =
                          RMul(Rat(Factorial(n),
                                   Factorial(rem[1]) * Factorial(rem[2]) * Factorial(rem[3])),
                               RMul(RPow(chance[1], rem[1]),
                                    RMul(RPow(chance[2], rem[2]), RPow(chance[3], rem[3]))))
        /\ (item.n_sockets = 6 /\ Reqs = <<0, 0, 0>> /\ desired = <<2, 2, 2>>) =>
              \E i \in 1..Len(results) :
                  /\ results[i].name.kind = "chromatic"
                  /\ Chance(results[i]) = Rat(90, 729)

W8_SixSocketsTwoOfEach ==
    /\ Called
    /\ item.n_sockets = 6
    /\ Reqs = <<0, 0, 0>>
    /\ desired = <<2, 2, 2>>
    /\ Chance(results[Len(results)]) = Rat(10, 81)

\* C9: an Item with a negative socket count or requirement, and a calculator
\* with a negative target count, fail at construction, so that no colour
\* chances and no results are computed from them.
C9_InvalidInputRejected ==
    /\ (pc # "start" /\ (item.n_sockets < 0 \/ \E i \in 1..3 : Reqs[i] < 0)) =>
          (raised # "none" /\ chances = <<>> /\ results = <<>>)
    /\ (Constructed /\ \E c \in 1..3 : desired[c] < 0) =>
          (raised # "none" /\ chances = <<>> /\ results = <<>>)

\* The options compute_chances hands back when it is called with one of the
\* given levels, for an item with at most two requirements.
FeasibleOptionsReturnedAt(levels) ==
    (Called /\ item.n_req <= 2 /\ sort_by \in levels) =>
        /\ Sum3(desired) # item.n_sockets => (raised = "none" /\ returned = <<>>)
        /\ Sum3(desired) = item.n_sockets =>
              /\ raised = "none"
              /\ returned # <<>>
              /\ \E j \in 1..Len(returned) : returned[j].name.kind = "chromatic"
              /\ {returned[j].name : j \in 1..Len(returned)}
                    = {RGBStr(options[i]) : i \in {k \in 1..Len(options) :
                                              \A c \in 1..3 : options[k][c] <= desired[c]}}
              /\ \A j, k \in 1..Len(returned) : returned[j].name = returned[k].name => j = k

\* C10: for an item with at most two requirements: when the target's sum
\* differs from n_sockets, compute_chances returns an empty sequence without
\* raising; when it equals n_sockets, compute_chances returns a non-empty
\* sequence that holds the chromatic option and exactly the options whose
\* fixed colours are componentwise <= the target.
C10_FeasibleOptionsReturned == FeasibleOptionsReturnedAt(LevelSet)

\* The same for every level that has a percentiles entry.
FeasibleOptionsReturnedAtStoredLevels ==
    FeasibleOptionsReturnedAt({PercentileKeys[i] : i \in 1..Len(PercentileKeys)})

\* No attempt count is left undecided by the fixed-point enclosures.
AttemptsDecided ==
    Called => \A i \in 1..Len(results) : \A L \in DOMAIN results[i].percentiles :
                  results[i].percentiles[L] # RInt(Undecided)

====
